---- MODULE Spec2Model ----
(***************************************************************************)
(* State-machine model of the MP3 player in "src/проект/MP3 Player/       *)
(* player.py": the Mp3Player window, its track list, the playlist widget, *)
(* the media player it drives and the files it persists.                  *)
(*                                                                         *)
(* Every handler of Mp3Player is a pure operator on a record `s` holding  *)
(* the fields of the window (Self below); an action applies one handler   *)
(* to the current state and commits the resulting record.                 *)
(*                                                                         *)
(* An Optional[...] of the source is a sequence of length <= 1:           *)
(* <<>> is None, <<x>> is x.                                               *)
(***************************************************************************)
EXTENDS Integers, Sequences, FiniteSets, TLC

VARIABLES
    tracks,           \* self.tracks: List[Track]
    playlist_widget,  \* self.playlist_widget: [items, currentRow]
    current_index,    \* self.current_index: Optional[int]
    seeking,          \* self._seeking
    player,           \* self.player: [source, playbackState, position, duration]
    seek_slider,      \* self.seek_slider: [value, down]
    time_label,       \* self.time_label text: <<position mm:ss, duration mm:ss>>
    volume,           \* self.audio_output.volume(), a float32 <<m, e>> = m / 2^e
    volume_slider,    \* self.volume_slider.value()
    mini_label,       \* self.mini_label text
    btn_pause,        \* self.btn_pause text
    status,           \* self.status message
    last_session,     \* data_dir/last_session.m3u: Optional[sequence of lines]
    last_volume,      \* data_dir/last_volume.txt: Optional[float]
    last_state,       \* data_dir/last_state.txt: Optional[sequence of "|" fields]
    playlist_file,    \* the .m3u file the user saves to and loads from
    fs,               \* the files that exist on the filesystem
    running,          \* TRUE while the window exists (between __init__ and closeEvent)
    lastOp,           \* history: the handler that ran last
    effects,          \* history: the player commands and flag writes of that handler, in order
    toggleRun,        \* history: playback states before each of the last (<= 2) consecutive toggle_pause calls
    unattended,       \* TRUE once the user has left the player to itself
    sessions,         \* how many times the application has been started
    lastIndex,        \* history: the index a direct call of _play_index was given, else None
    raised,           \* history: the artifacts whose read raised in the last __init__
    ledger            \* history: the tracks added since the list was last replaced, in order, less the removed ones

vars == <<tracks, playlist_widget, current_index, seeking, player, seek_slider,
          time_label, volume, volume_slider, mini_label, btn_pause, status,
          last_session, last_volume, last_state, playlist_file, fs, running,
          lastOp, effects, toggleRun, unattended, sessions, lastIndex, raised, ledger>>

(***************************************************************************)
(* Bounds of the model.                                                    *)
(***************************************************************************)
MaxTracks == 2      \* longest track list explored
MaxPick == 2        \* most files one dialog or one drop delivers
MaxDeletes == 1     \* most files deleted from the filesystem
MaxSessions == 2    \* the application is started at most this often
MaxTicks == 1       \* the media service reports positions 0, 1000, .. MaxTicks * 1000 ms

(***************************************************************************)
(* Program constants.                                                      *)
(***************************************************************************)
SUPPORTED_EXTENSIONS == {"mp3", "wav", "flac", "ogg", "m4a", "aac"}
SeekSliderMaximum == 1000
VolumeSliderMaximum == 100
DefaultVolumePercent == 80

\* the text toggle_pause gives btn_pause when it pauses (the resume icon, U+25B6)
ResumeLabel == "|>"

\* The status messages are named in English: "playing" (line 324), "added" (257),
\* "added by drop" (234), "playlist empty" (296), "playlist load error" (416),
\* "playlist loaded" (414), "playlist saved" (393), "playlist save error" (395).

None == <<>>
Some(x) == <<x>>

(***************************************************************************)
(* The files of the environment.  A path is its directory, stem and       *)
(* extension; two of the files are audio files, one is not.               *)
(***************************************************************************)
FileA == [dir |-> "C:/music", stem |-> "a", ext |-> "mp3"]
FileB == [dir |-> "C:/music", stem |-> "b", ext |-> "MP3"]
FileTxt == [dir |-> "C:/music", stem |-> "notes", ext |-> "txt"]
AllFiles == {FileA, FileB, FileTxt}

\* str.lower() on the extensions that occur
Lower(ext) == IF ext = "MP3" THEN "mp3" ELSE ext

\* the duration the media service reports for a file once it has loaded it
MediaDuration(path) == IF path.stem = "a" THEN 2000 ELSE 2500

Positions == {k * 1000 : k \in 0..MaxTicks}

\* the slider values a drag of the seek slider visits; 333 of 1000 is a
\* position between two milliseconds of a 2500 ms track
SeekChoices == {0, 333, SeekSliderMaximum}

\* the integers an index is drawn from: every position of a full list, and
\* integers on both sides of it
IndexChoices == (0 - (MaxTracks + 1))..(MaxTracks + 1)

\* the values the user sets the volume slider to
VolumeChoices == {35}

Min(a, b) == IF a < b THEN a ELSE b
Max(a, b) == IF a > b THEN a ELSE b

RECURSIVE Pow2(_)
Pow2(n) == IF n = 0 THEN 1 ELSE 2 * Pow2(n - 1)

\* all sequences over S of length lo..hi
SeqsOf(S, lo, hi) == UNION {[1..n -> S] : n \in lo..hi}

\* seq without its (1-based) k-th element
RemoveAt(seq, k) == [i \in 1..(Len(seq) - 1) |-> IF i < k THEN seq[i] ELSE seq[i + 1]]

(***************************************************************************)
(* Track.from_path                                                         *)
(***************************************************************************)
from_path(path) == [path |-> path, title |-> path.stem]

\* Python's list[index]: a negative index counts from the end
PyInRange(list, index) == -Len(list) <= index /\ index < Len(list)
PyGet(list, index) == IF index < 0 THEN list[Len(list) + index + 1] ELSE list[index + 1]

(***************************************************************************)
(* QAudioOutput keeps its volume in a C float.  A float32 is <<m, e>>,    *)
(* the value m / 2^e with 2^23 <= m < 2^24, or <<0, 0>> for zero.         *)
(***************************************************************************)
RECURSIVE F32Exp(_, _, _)
F32Exp(num, den, e) == IF num * Pow2(e) >= Pow2(23) * den THEN e ELSE F32Exp(num, den, e + 1)

\* the float32 nearest to num/den (round half to even), for 0 <= num <= den
ToFloat32(num, den) ==
    IF num = 0 THEN <<0, 0>>
    ELSE LET e == F32Exp(num, den, 0)
             q == (num * Pow2(e)) \div den
             r == (num * Pow2(e)) % den
             m == IF 2 * r > den \/ (2 * r = den /\ q % 2 = 1) THEN q + 1 ELSE q
         IN  IF m = Pow2(24) THEN <<Pow2(23), e - 1>> ELSE <<m, e>>

\* int(v * 100) for a float32-valued v: m * 100 < 2^31 is exact in a double
IntTimes100(v) == (v[1] * 100) \div Pow2(v[2])

(***************************************************************************)
(* _format_time: minutes and seconds of the "MM:SS" text                   *)
(***************************************************************************)
_format_time(ms) ==
    IF ms <= 0 THEN <<0, 0>>
    ELSE LET seconds == ms \div 1000
         IN  <<seconds \div 60, seconds % 60>>

(***************************************************************************)
(* The window's fields as one record.                                      *)
(***************************************************************************)
Self ==
    [tracks |-> tracks, items |-> playlist_widget.items,
     currentRow |-> playlist_widget.currentRow,
     current_index |-> current_index, seeking |-> seeking,
     source |-> player.source, playbackState |-> player.playbackState,
     position |-> player.position, duration |-> player.duration,
     slider |-> seek_slider.value, sliderDown |-> seek_slider.down,
     time_label |-> time_label, volume |-> volume, volume_slider |-> volume_slider,
     mini_label |-> mini_label, btn_pause |-> btn_pause, status |-> status,
     effects |-> <<>>]

Commit(s) ==
    /\ tracks' = s.tracks
    /\ playlist_widget' = [items |-> s.items, currentRow |-> s.currentRow]
    /\ current_index' = s.current_index
    /\ seeking' = s.seeking
    /\ player' = [source |-> s.source, playbackState |-> s.playbackState,
                  position |-> s.position, duration |-> s.duration]
    /\ seek_slider' = [value |-> s.slider, down |-> s.sliderDown]
    /\ time_label' = s.time_label
    /\ volume' = s.volume
    /\ volume_slider' = s.volume_slider
    /\ mini_label' = s.mini_label
    /\ btn_pause' = s.btn_pause
    /\ status' = s.status
    /\ effects' = s.effects

\* the window is in the state s
StartsAs(s) ==
    /\ tracks = s.tracks
    /\ playlist_widget = [items |-> s.items, currentRow |-> s.currentRow]
    /\ current_index = s.current_index
    /\ seeking = s.seeking
    /\ player = [source |-> s.source, playbackState |-> s.playbackState,
                 position |-> s.position, duration |-> s.duration]
    /\ seek_slider = [value |-> s.slider, down |-> s.sliderDown]
    /\ time_label = s.time_label
    /\ volume = s.volume
    /\ volume_slider = s.volume_slider
    /\ mini_label = s.mini_label
    /\ btn_pause = s.btn_pause
    /\ status = s.status
    /\ effects = s.effects

Log(s, what) == [s EXCEPT !.effects = Append(@, what)]

(***************************************************************************)
(* The media service (QMediaPlayer) as the handlers use it.               *)
(***************************************************************************)
setSource(s, path) ==
    [Log(s, "setSource") EXCEPT !.source = Some(path), !.playbackState = "StoppedState",
                                !.position = 0, !.duration = 0]

play(s) ==
    IF s.source = None THEN Log(s, "play")
    ELSE [Log(s, "play") EXCEPT !.playbackState = "PlayingState"]

pause(s) ==
    IF s.source = None THEN Log(s, "pause")
    ELSE [Log(s, "pause") EXCEPT !.playbackState = "PausedState"]

stop(s) == [Log(s, "stop") EXCEPT !.playbackState = "StoppedState", !.position = 0]

setPosition(s, pos) == [Log(s, "setPosition") EXCEPT !.position = pos]

(***************************************************************************)
(* The playlist widget (QListWidget) as the handlers use it.              *)
(***************************************************************************)
addItem(s, label) == [s EXCEPT !.items = Append(@, label)]

setCurrentRow(s, row) ==
    [s EXCEPT !.currentRow = IF 0 <= row /\ row < Len(s.items) THEN row ELSE -1]

\* removing the current row makes the following row current, else the preceding one
takeItem(s, row) ==
    IF row < 0 \/ row >= Len(s.items) THEN s
    ELSE [s EXCEPT !.items = RemoveAt(@, row + 1),
                   !.currentRow = IF @ > row THEN @ - 1
                                  ELSE IF @ = row /\ row = Len(s.items) - 1 THEN row - 1
                                  ELSE @]

clearItems(s) == [s EXCEPT !.items = <<>>, !.currentRow = -1]

(***************************************************************************)
(* Handlers of Mp3Player.                                                  *)
(***************************************************************************)
_update_mini_label(s) ==
    IF s.current_index = None THEN [s EXCEPT !.mini_label = "No track"]
    ELSE [s EXCEPT !.mini_label = PyGet(s.tracks, s.current_index[1]).title]

_play_index(s, index) ==
    IF ~PyInRange(s.tracks, index) THEN s
    ELSE LET track == PyGet(s.tracks, index)
             s1 == play(setSource(s, track.path))
             s2 == [s1 EXCEPT !.current_index = Some(index)]
         IN  [_update_mini_label(s2) EXCEPT !.status = <<"playing", track.title>>]

\* the loop body shared by the restore, add_tracks, dropEvent and load_playlist
AppendTrack(s, path) ==
    LET track == from_path(path)
    IN  addItem([s EXCEPT !.tracks = Append(@, track)], track.title)

RECURSIVE AddLoop(_, _, _)
\* for p in paths: if ext not in SUPPORTED_EXTENSIONS: continue; append; added += 1
AddLoop(s, paths, added) ==
    IF paths = <<>> THEN [s EXCEPT !.status = <<"added", added>>]
    ELSE IF Lower(Head(paths).ext) \notin SUPPORTED_EXTENSIONS
         THEN AddLoop(s, Tail(paths), added)
         ELSE AddLoop(AppendTrack(s, Head(paths)), Tail(paths), added + 1)

add_tracks(s, paths) == AddLoop(s, paths, 0)

RECURSIVE DropLoop(_, _, _, _)
\* for p in paths: if is_file() and suffix in SUPPORTED_EXTENSIONS: append; added += 1
DropLoop(s, paths, files, added) ==
    IF paths = <<>> THEN [s EXCEPT !.status = <<"added by drop", added>>]
    ELSE IF Head(paths) \in files /\ Lower(Head(paths).ext) \in SUPPORTED_EXTENSIONS
         THEN DropLoop(AppendTrack(s, Head(paths)), Tail(paths), files, added + 1)
         ELSE DropLoop(s, Tail(paths), files, added)

dropEvent(s, paths, files) == DropLoop(s, paths, files, 0)

\* mutant: the row leaves the widget and the track after it leaves the list
remove_selected_OffByOne(s) ==
    LET sel == s.currentRow
        s1 == IF s.current_index = Some(sel)
              THEN [stop(s) EXCEPT !.current_index = None]
              ELSE s
        s2 == takeItem(s1, sel)
    IN  IF sel < 0 THEN s
        ELSE [s2 EXCEPT !.tracks = RemoveAt(@, Min(sel + 2, Len(@)))]

\* mutant: the row leaves the widget and the track stays in the list
remove_selected_KeepsTrack(s) ==
    LET sel == s.currentRow
        s1 == IF s.current_index = Some(sel)
              THEN [stop(s) EXCEPT !.current_index = None]
              ELSE s
    IN  IF sel < 0 THEN s ELSE takeItem(s1, sel)

remove_selected(s) ==
    LET sel == s.currentRow
        s1 == IF s.current_index = Some(sel)
              THEN [stop(s) EXCEPT !.current_index = None]
              ELSE s
        s2 == takeItem(s1, sel)
    IN  IF sel < 0 THEN s
        ELSE IF sel < Len(s2.tracks)
             THEN [s2 EXCEPT !.tracks = RemoveAt(@, sel + 1)]
             ELSE s2

play_selected(s) ==
    LET row0 == s.currentRow
        pick == row0 < 0 /\ s.tracks # <<>>
        row == IF pick THEN 0 ELSE row0
        s1 == IF pick THEN setCurrentRow(s, 0) ELSE s
    IN  IF row < 0 THEN [s1 EXCEPT !.status = <<"playlist empty">>]
        ELSE IF s1.current_index = Some(row) /\ s1.playbackState = "PausedState"
             THEN play(s1)
             ELSE _play_index(s1, row)

\* mutant: the pause button stops a playing track
toggle_pause_Stops(s) ==
    IF s.playbackState = "PlayingState"
    THEN [stop(s) EXCEPT !.btn_pause = ResumeLabel]
    ELSE IF s.playbackState = "PausedState"
         THEN [play(s) EXCEPT !.btn_pause = "Pause"]
         ELSE [play_selected(s) EXCEPT !.btn_pause = "Pause"]

toggle_pause(s) ==
    IF s.playbackState = "PlayingState"
    THEN [pause(s) EXCEPT !.btn_pause = ResumeLabel]
    ELSE IF s.playbackState = "PausedState"
         THEN [play(s) EXCEPT !.btn_pause = "Pause"]
         ELSE [play_selected(s) EXCEPT !.btn_pause = "Pause"]

on_item_double(s, row) == _play_index(s, row)

\* mutant: after the last track the playlist starts over
play_next_Wraps(s) ==
    IF s.current_index = None \/ s.tracks = <<>> THEN s
    ELSE LET nxt == (s.current_index[1] + 1) % Len(s.tracks)
         IN  _play_index(setCurrentRow(s, nxt), nxt)

play_next(s) ==
    IF s.current_index = None THEN s
    ELSE LET nxt == s.current_index[1] + 1
         IN  IF nxt < Len(s.tracks)
             THEN _play_index(setCurrentRow(s, nxt), nxt)
             ELSE [stop(s) EXCEPT !.current_index = None]

play_prev(s) ==
    IF s.current_index = None THEN s
    ELSE LET prev == Max(0, s.current_index[1] - 1)
         IN  _play_index(setCurrentRow(s, prev), prev)

\* int(a / b * c) of the source; on the positions, durations and slider values of
\* the model the float arithmetic of the source gives exactly this integer
IntRatio(a, b, c) == (a * c) \div b

\* mutant: the callback does not look at the flag
on_position_changed_Unguarded(s, position) ==
    LET s1 == IF s.duration > 0
              THEN [s EXCEPT !.slider = IntRatio(position, s.duration, SeekSliderMaximum)]
              ELSE s
    IN  [s1 EXCEPT !.time_label = <<_format_time(position), _format_time(s.duration)>>]

on_position_changed(s, position) ==
    IF s.seeking THEN s
    ELSE LET s1 == IF s.duration > 0
                   THEN [s EXCEPT !.slider = IntRatio(position, s.duration, SeekSliderMaximum)]
                   ELSE s
         IN  [s1 EXCEPT !.time_label = <<_format_time(position), _format_time(s.duration)>>]

on_duration_changed(s, duration) ==
    [s EXCEPT !.time_label = <<_format_time(s.position), _format_time(duration)>>]

on_seek_pressed(s) == [Log(s, "_seeking = True") EXCEPT !.seeking = TRUE]

\* mutant: the seek is forwarded whatever the duration
on_seek_moved_Unguarded(s, slider_value) ==
    setPosition(s, IntRatio(slider_value, SeekSliderMaximum, s.duration))

on_seek_moved(s, slider_value) ==
    IF s.duration <= 0 THEN s
    ELSE setPosition(s, IntRatio(slider_value, SeekSliderMaximum, s.duration))

on_seek_released(s) ==
    on_seek_moved([Log(s, "_seeking = False") EXCEPT !.seeking = FALSE], s.slider)

\* mutant: a track that ends is played again
on_media_status_Repeats(s, mediaStatus) ==
    IF mediaStatus = "EndOfMedia" /\ s.current_index # None
    THEN _play_index(s, s.current_index[1])
    ELSE s

on_media_status(s, mediaStatus) ==
    IF mediaStatus = "EndOfMedia" THEN play_next(s) ELSE s

\* the volume slider's valueChanged lambda
on_volume_changed(s, v) == [s EXCEPT !.volume = ToFloat32(v, 100)]

\* QSlider.setValue: valueChanged is emitted only when the value changes
setVolumeSliderValue(s, v) ==
    LET c == Max(0, Min(VolumeSliderMaximum, v))
    IN  IF c = s.volume_slider THEN s
        ELSE on_volume_changed([s EXCEPT !.volume_slider = c], c)

RECURSIVE LoadLoop(_, _, _)
\* for p in lines: if Path(p).exists(): append
LoadLoop(s, lines, files) ==
    IF lines = <<>> THEN s
    ELSE IF Head(lines) \in files
         THEN LoadLoop(AppendTrack(s, Head(lines)), Tail(lines), files)
         ELSE LoadLoop(s, Tail(lines), files)

\* mutant: every line of the file becomes a track, whether its file exists or not
load_playlist_KeepsMissing(s, chosen, content, files) ==
    IF chosen = None THEN s
    ELSE IF content = None THEN [s EXCEPT !.status = <<"playlist load error">>]
         ELSE LET s1 == clearItems([s EXCEPT !.tracks = <<>>])
                  lines == content[1]
              IN  [LoadLoop(s1, lines, {lines[i] : i \in 1..Len(lines)})
                      EXCEPT !.status = <<"playlist loaded">>]

\* mutant: the list is cleared before the file is read
load_playlist_ClearsFirst(s, chosen, content, files) ==
    IF chosen = None THEN s
    ELSE LET s1 == clearItems([s EXCEPT !.tracks = <<>>])
         IN  IF content = None THEN [s1 EXCEPT !.status = <<"playlist load error">>]
             ELSE [LoadLoop(s1, content[1], files) EXCEPT !.status = <<"playlist loaded">>]

\* chosen: Optional[path picked in the dialog]; content: Optional[lines read]
\* (None when open() or readlines() raises)
load_playlist(s, chosen, content, files) ==
    IF chosen = None THEN s
    ELSE IF content = None THEN [s EXCEPT !.status = <<"playlist load error">>]
         ELSE LET s1 == clearItems([s EXCEPT !.tracks = <<>>])
              IN  [LoadLoop(s1, content[1], files) EXCEPT !.status = <<"playlist loaded">>]

\* the lines save_playlist and closeEvent write: t.path + "\n" for each track
PathLines(list) == [i \in 1..Len(list) |-> list[i].path]

(***************************************************************************)
(* __init__: the window as constructed (_setup_player, _setup_ui), then   *)
(* the restore of the last session from the three files of data_dir.      *)
(***************************************************************************)
Constructed ==
    [tracks |-> <<>>, items |-> <<>>, currentRow |-> -1,
     current_index |-> None, seeking |-> FALSE,
     source |-> None, playbackState |-> "StoppedState", position |-> 0, duration |-> 0,
     slider |-> 0, sliderDown |-> FALSE,
     time_label |-> <<_format_time(0), _format_time(0)>>,
     volume |-> ToFloat32(DefaultVolumePercent, 100), volume_slider |-> DefaultVolumePercent,
     mini_label |-> "No track", btn_pause |-> "Pause", status |-> <<>>,
     effects |-> <<>>]

\* lines 58-69
RestoreTracks(s, session, files) ==
    IF session = None THEN s ELSE LoadLoop(s, session[1], files)

\* the texts of last_volume.txt that are no finite number: one float() raises
\* on, and one it reads as infinity
NoFloatText == <<>>
InfText == <<"inf">>

\* lines 72-78; a text that is no float raises in float() and is skipped; for
\* "inf" float() returns infinity, setVolume(inf) is applied (QAudioOutput clamps
\* a volume to 0.0..1.0) and int(inf * 100) raises OverflowError before the
\* slider is set
RestoreVolume(s, text) ==
    IF text = None \/ Len(text[1]) = 0 THEN s
    ELSE IF Len(text[1]) = 1 THEN [s EXCEPT !.volume = ToFloat32(1, 1)]
    ELSE LET v == text[1]
         IN  setVolumeSliderValue([s EXCEPT !.volume = v], IntTimes100(v))

\* mutant: the index read from the file is not checked against the list, so
\* current_index is set before _play_index finds no track at an index outside it
RestoreState_Unchecked(s, text) ==
    IF text = None \/ Len(text[1]) # 2 THEN s
    ELSE LET idx == text[1][1]
             pos == text[1][2]
             s1 == setCurrentRow([s EXCEPT !.current_index = Some(idx)], idx)
         IN  IF PyInRange(s.tracks, idx)
             THEN pause(setPosition(_play_index(s1, idx), pos))
             ELSE s1

\* lines 81-93
RestoreState(s, text) ==
    IF text = None \/ Len(text[1]) # 2 THEN s
    ELSE LET idx == text[1][1]
             pos == text[1][2]
         IN  IF 0 <= idx /\ idx < Len(s.tracks)
             THEN LET s1 == setCurrentRow([s EXCEPT !.current_index = Some(idx)], idx)
                  IN  pause(setPosition(_play_index(s1, idx), pos))
             ELSE s

Restore(session, vol, state, files) ==
    RestoreState(RestoreVolume(RestoreTracks(Constructed, session, files), vol), state)

(***************************************************************************)
(* The initial state: the window constructed on a machine whose data_dir  *)
(* holds no file yet.                                                      *)
(***************************************************************************)
Init ==
    /\ StartsAs(Restore(None, None, None, AllFiles))
    /\ last_session = None
    /\ last_volume = None
    /\ last_state = None
    /\ playlist_file = None
    /\ fs = AllFiles
    /\ running = TRUE
    /\ lastOp = "__init__"
    /\ toggleRun = <<>>
    /\ unattended = FALSE
    /\ sessions = 1
    /\ lastIndex = None
    /\ raised = {}
    /\ ledger = <<>>

(***************************************************************************)
(* Actions: one per event the window handles.                             *)
(***************************************************************************)
disk == <<last_session, last_volume, last_state, playlist_file>>

\* no direct call of _play_index and no __init__ in this step
NoCall == lastIndex' = None /\ raised' = {}

\* a handler runs to completion on the event-dispatch thread
Account(op, s, l) ==
    /\ running
    /\ Commit(s)
    /\ NoCall
    /\ lastOp' = op
    /\ toggleRun' = <<>>
    /\ ledger' = l
    /\ UNCHANGED <<disk, fs, running, unattended, sessions>>

Handle(op, s) == Account(op, s, ledger)

\* an event the user causes
\* the user operates the window; the operations are explored in the first session,
\* the sessions after it are restored and closed
Attended == ~unattended /\ sessions = 1

User(op, s) == Attended /\ Handle(op, s)

\* the tracks the files of a pick become
TracksOf(paths) == [i \in 1..Len(paths) |-> [path |-> paths[i], title |-> paths[i].stem]]

\* a list without its entry at row (counted from 0)
Excise(l, row) ==
    IF row < 0 \/ row >= Len(l) THEN l
    ELSE [i \in 1..(Len(l) - 1) |-> IF i <= row THEN l[i] ELSE l[i + 1]]

\* the supported files among paths
Audio(paths) == SelectSeq(paths, LAMBDA p : Lower(p.ext) \in SUPPORTED_EXTENSIONS)

\* btn_add: the dialog returns the files the user picked
AddTracks ==
    \E paths \in SeqsOf(AllFiles, 1, MaxPick) :
        /\ Len(tracks) + Len(Audio(paths)) <= MaxTracks
        /\ Attended
        /\ Account("add_tracks", add_tracks(Self, paths), ledger \o TracksOf(Audio(paths)))

\* files dropped on the window
DropEvent ==
    \E paths \in SeqsOf(AllFiles, 1, MaxPick) :
        /\ Len(tracks) + Len(Audio(paths)) <= MaxTracks
        /\ Attended
        /\ Account("dropEvent", dropEvent(Self, paths, fs),
                   ledger \o TracksOf(SelectSeq(Audio(paths), LAMBDA p : p \in fs)))

\* the user clicks a row of the playlist widget, which makes it the current row
SelectRow ==
    \E row \in 0..(Len(playlist_widget.items) - 1) :
        /\ row # playlist_widget.currentRow
        /\ User("select", setCurrentRow(Self, row))

RemoveSelected ==
    /\ Attended
    /\ Account("remove_selected", remove_selected(Self),
               Excise(ledger, playlist_widget.currentRow))

\* btn_play and mini_btn_play
PlaySelected == User("play_selected", play_selected(Self))

TogglePause ==
    /\ Attended
    /\ running
    /\ Commit(toggle_pause(Self))
    /\ NoCall
    /\ lastOp' = "toggle_pause"
    /\ toggleRun' = IF Len(toggleRun) < 2 THEN Append(toggleRun, player.playbackState)
                    ELSE <<toggleRun[2], player.playbackState>>
    /\ UNCHANGED <<disk, fs, running, unattended, sessions, ledger>>

\* mutant: Stop also forgets the current track
StopClicked_ClearsIndex == User("stop", [stop(Self) EXCEPT !.current_index = None])

\* btn_stop is connected to player.stop
StopClicked == User("stop", stop(Self))

\* a double click makes the row current and emits itemDoubleClicked
ItemDouble ==
    \E row \in 0..(Len(playlist_widget.items) - 1) :
        User("on_item_double", on_item_double(setCurrentRow(Self, row), row))

\* mini_btn_next
PlayNext == User("play_next", play_next(Self))

\* mini_btn_prev
PlayPrev == User("play_prev", play_prev(Self))

\* the track reaches its end: the service stops at the end of the media and
\* reports the EndOfMedia status
EndOfMedia ==
    /\ player.playbackState = "PlayingState"
    /\ Handle("on_media_status",
              on_media_status([Self EXCEPT !.playbackState = "StoppedState",
                                           !.position = MediaDuration(player.source[1])],
                              "EndOfMedia"))

\* the service has loaded the source and reports its duration
DurationChanged ==
    /\ player.source # None
    /\ player.duration = 0
    /\ LET d == MediaDuration(player.source[1])
       IN  Handle("on_duration_changed", on_duration_changed([Self EXCEPT !.duration = d], d))

\* the service reports a position: playback has advanced, or the position it is at
PositionChanged ==
    \E pos \in Positions \cup {player.position} :
        /\ player.source # None
        /\ pos <= MediaDuration(player.source[1])
        /\ \/ player.playbackState = "PlayingState" /\ pos > player.position
           \/ pos = player.position
        /\ Handle("on_position_changed", on_position_changed([Self EXCEPT !.position = pos], pos))

\* the user presses the handle of the seek slider
SeekPressed ==
    /\ ~seek_slider.down
    /\ User("on_seek_pressed", on_seek_pressed([Self EXCEPT !.sliderDown = TRUE]))

\* the user drags the pressed handle to a value
SeekMoved ==
    \E v \in SeekChoices :
        /\ seek_slider.down
        /\ v # seek_slider.value
        /\ User("on_seek_moved", on_seek_moved([Self EXCEPT !.slider = v], v))

\* the user lets go of the handle
SeekReleased ==
    /\ seek_slider.down
    /\ User("on_seek_released", on_seek_released([Self EXCEPT !.sliderDown = FALSE]))

\* the user moves the volume slider
VolumeChanged ==
    \E v \in VolumeChoices :
        /\ v # volume_slider
        /\ User("on_volume_changed", setVolumeSliderValue(Self, v))

\* btn_save: the dialog is cancelled, or the file cannot be written, or it is written
SavePlaylist ==
    \E outcome \in {"cancel", "error", "ok"} :
        /\ Attended
        /\ running
        /\ Commit(IF outcome = "cancel" THEN Self
                  ELSE IF outcome = "error"
                       THEN [Self EXCEPT !.status = <<"playlist save error">>]
                       ELSE [Self EXCEPT !.status = <<"playlist saved">>])
        /\ playlist_file' = IF outcome = "ok" THEN Some(PathLines(tracks)) ELSE playlist_file
        /\ NoCall
        /\ lastOp' = "save_playlist"
        /\ toggleRun' = <<>>
        /\ UNCHANGED <<last_session, last_volume, last_state, fs, running, unattended, sessions, ledger>>

\* btn_load: the dialog is cancelled, or the file cannot be read, or it is read
LoadPlaylist ==
    \E outcome \in {"cancel", "error", "ok"} :
        /\ outcome = "ok" => playlist_file # None
        /\ Attended
        /\ LET s == load_playlist(Self,
                                  IF outcome = "cancel" THEN None ELSE Some("playlist.m3u"),
                                  IF outcome = "ok" THEN playlist_file ELSE None,
                                  fs)
           IN  Account("load_playlist", s, IF outcome = "ok" THEN s.tracks ELSE ledger)

\* the window is closed: the session is written to data_dir
CloseEvent ==
    /\ ~unattended
    /\ running
    /\ last_session' = Some(PathLines(tracks))
    /\ last_volume' = Some(volume)
    /\ last_state' = Some(<<IF current_index # None THEN current_index[1] ELSE -1,
                            player.position>>)
    /\ running' = FALSE
    /\ NoCall
    /\ lastOp' = "closeEvent"
    /\ toggleRun' = <<>>
    /\ UNCHANGED <<tracks, playlist_widget, current_index, seeking, player, seek_slider,
                   time_label, volume, volume_slider, mini_label, btn_pause, status,
                   effects, playlist_file, fs, unattended, sessions, ledger>>

\* the application is started again
Startup ==
    /\ ~running
    /\ sessions < MaxSessions
    /\ Commit(Restore(last_session, last_volume, last_state, fs))
    /\ running' = TRUE
    /\ sessions' = sessions + 1
    /\ NoCall
    /\ lastOp' = "__init__"
    /\ toggleRun' = <<>>
    /\ ledger' = tracks'
    /\ UNCHANGED <<disk, fs, unattended>>

\* the application is started again and the read of some artifacts raises (the
\* file cannot be opened or decoded, or its text is no number): each try block
\* raises before it has changed anything, and the artifact is skipped
Artifacts == {"session", "volume", "state"}

StartupRaising ==
    \E bad \in (SUBSET Artifacts) \ {{}} :
        /\ ~running
        /\ sessions < MaxSessions
        /\ "session" \in bad => last_session # None
        /\ "volume" \in bad => last_volume # None
        /\ "state" \in bad => last_state # None
        /\ Commit(Restore(IF "session" \in bad THEN None ELSE last_session,
                          IF "volume" \in bad THEN None ELSE last_volume,
                          IF "state" \in bad THEN None ELSE last_state,
                          fs))
        /\ running' = TRUE
        /\ sessions' = sessions + 1
        /\ lastIndex' = None
        /\ raised' = bad
        /\ lastOp' = "__init__"
        /\ toggleRun' = <<>>
        /\ ledger' = tracks'
        /\ UNCHANGED <<disk, fs, unattended>>

\* the indices an overwritten last_state.txt holds: below 0 and past every list
DamagedIndexes == {0 - MaxTracks, MaxTracks}

\* while the application is not running a file of data_dir is deleted, cut
\* short or overwritten (one file at a time)
Damage(session, vol, state) ==
    /\ ~running
    /\ lastOp # "damage"
    /\ last_session' = session
    /\ last_volume' = vol
    /\ last_state' = state
    /\ NoCall
    /\ lastOp' = "damage"
    /\ toggleRun' = <<>>
    /\ UNCHANGED <<tracks, playlist_widget, current_index, seeking, player, seek_slider,
                   time_label, volume, volume_slider, mini_label, btn_pause, status,
                   effects, playlist_file, fs, running, unattended, sessions, ledger>>

\* last_session.m3u is deleted or loses its last lines
DamageSession ==
    /\ last_session # None
    /\ \E session \in {None} \cup {Some(SubSeq(last_session[1], 1, n)) :
                                         n \in 0..(Len(last_session[1]) - 1)} :
           Damage(session, last_volume, last_state)

\* last_volume.txt is deleted or overwritten with a text that is no finite number
DamageVolume ==
    /\ last_volume # None
    /\ Len(last_volume[1]) = 2
    /\ \E vol \in {None, Some(NoFloatText), Some(InfText)} :
           Damage(last_session, vol, last_state)

\* last_state.txt is deleted, loses its second field or gets another index
DamageState ==
    /\ last_state # None
    /\ Len(last_state[1]) = 2
    /\ \E state \in {None, Some(<<last_state[1][1]>>)} \cup
                      {Some(<<idx, last_state[1][2]>>) : idx \in DamagedIndexes} :
           Damage(last_session, last_volume, state)

\* a file is deleted from the filesystem
DeleteFile ==
    \E f \in fs :
        /\ Cardinality(AllFiles \ fs) < MaxDeletes
        /\ fs' = fs \ {f}
        /\ NoCall
        /\ lastOp' = "delete_file"
        /\ toggleRun' = <<>>
        /\ UNCHANGED <<tracks, playlist_widget, current_index, seeking, player, seek_slider,
                       time_label, volume, volume_slider, mini_label, btn_pause, status,
                       effects, disk, running, unattended, sessions, ledger>>

\* the user leaves the player playing and touches nothing any more
Leave ==
    /\ running
    /\ Attended
    /\ player.playbackState = "PlayingState"
    /\ unattended' = TRUE
    /\ NoCall
    /\ lastOp' = "leave"
    /\ toggleRun' = <<>>
    /\ UNCHANGED <<tracks, playlist_widget, current_index, seeking, player, seek_slider,
                   time_label, volume, volume_slider, mini_label, btn_pause, status,
                   effects, disk, fs, running, sessions, ledger>>

\* _play_index called on its own with an integer of the caller's choice
PlayIndexCall ==
    \E index \in IndexChoices :
        /\ Attended
        /\ running
        /\ Commit(_play_index(Self, index))
        /\ lastIndex' = Some(index)
        /\ raised' = {}
        /\ lastOp' = "_play_index"
        /\ toggleRun' = <<>>
        /\ UNCHANGED <<disk, fs, running, unattended, sessions, ledger>>

(***************************************************************************)
(* Specifications.                                                         *)
(***************************************************************************)
\* the playlist and the transport controls
Next ==
    \/ AddTracks
    \/ SelectRow
    \/ RemoveSelected
    \/ PlaySelected
    \/ TogglePause
    \/ StopClicked
    \/ ItemDouble
    \/ PlayNext
    \/ PlayPrev
    \/ EndOfMedia

Spec == Init /\ [][Next]_vars

\* the playlist, its files and the restart of the application
NextLibrary ==
    \/ AddTracks
    \/ DropEvent
    \/ SelectRow
    \/ RemoveSelected
    \/ SavePlaylist
    \/ LoadPlaylist
    \/ DeleteFile
    \/ CloseEvent
    \/ Startup

SpecLibrary == Init /\ [][NextLibrary]_vars

\* loading a playlist while tracks play
NextPlaylist ==
    \/ AddTracks
    \/ ItemDouble
    \/ TogglePause
    \/ PlayNext
    \/ SavePlaylist
    \/ LoadPlaylist

SpecPlaylist == Init /\ [][NextPlaylist]_vars

\* the seek slider and the callbacks of the media service
NextSeek ==
    \/ AddTracks
    \/ PlaySelected
    \/ TogglePause
    \/ StopClicked
    \/ DurationChanged
    \/ PositionChanged
    \/ SeekPressed
    \/ SeekMoved
    \/ SeekReleased

SpecSeek == Init /\ [][NextSeek]_vars

\* a file is deleted while the application is not running
DeleteWhileClosed == ~running /\ DeleteFile

\* the session across restarts
NextSession ==
    \/ AddTracks
    \/ SelectRow
    \/ RemoveSelected
    \/ ItemDouble
    \/ PositionChanged
    \/ VolumeChanged
    \/ CloseEvent
    \/ Startup
    \/ DeleteWhileClosed

SpecSession == Init /\ [][NextSession]_vars

\* the player left to itself: every track that plays reaches its end
NextAuto ==
    \/ AddTracks
    \/ SelectRow
    \/ RemoveSelected
    \/ ItemDouble
    \/ EndOfMedia
    \/ Leave

SpecAuto == Init /\ [][NextAuto]_vars /\ WF_vars(EndOfMedia)

\* _play_index on every index, over playlists that play, pause and shrink
NextPlayIndex ==
    \/ AddTracks
    \/ SelectRow
    \/ RemoveSelected
    \/ TogglePause
    \/ PlayIndexCall

SpecPlayIndex == Init /\ [][NextPlayIndex]_vars

\* the track list under adds, drops and removals, with tracks playing
NextRegistry ==
    \/ AddTracks
    \/ DropEvent
    \/ SelectRow
    \/ RemoveSelected
    \/ ItemDouble
    \/ DeleteFile

SpecRegistry == Init /\ [][NextRegistry]_vars

\* a playlist saved, files deleted, the playlist loaded again
NextRoundTrip ==
    \/ AddTracks
    \/ SelectRow
    \/ RemoveSelected
    \/ SavePlaylist
    \/ LoadPlaylist
    \/ DeleteFile

SpecRoundTrip == Init /\ [][NextRoundTrip]_vars

\* restarts over a data_dir whose files are missing, damaged or unreadable
NextRestore ==
    \/ AddTracks
    \/ ItemDouble
    \/ VolumeChanged
    \/ CloseEvent
    \/ DamageSession
    \/ DamageVolume
    \/ DamageState
    \/ DeleteWhileClosed
    \/ Startup
    \/ StartupRaising

SpecRestore == Init /\ [][NextRestore]_vars

\* restarts with a marker whose index the restored list may not have
NextMarker ==
    \/ AddTracks
    \/ ItemDouble
    \/ CloseEvent
    \/ DamageState
    \/ DeleteWhileClosed
    \/ Startup

SpecMarker == Init /\ [][NextMarker]_vars

(***************************************************************************)
(* Properties.                                                             *)
(***************************************************************************)
Present(ci) == ci # None
Valid(list, ci) == Present(ci) /\ 0 <= ci[1] /\ ci[1] < Len(list)

\* C1: whenever current_index is present it identifies the track bound to the
\* media service: tracks[current_index].path is the source last bound.
CurrentIndexIsBoundTrack ==
    Present(current_index) =>
        /\ Valid(tracks, current_index)
        /\ player.source = Some(tracks[current_index[1] + 1].path)

\* C2: the track list and the playlist widget have the same length and order:
\* the widget's i-th label is the title of the i-th track.
RegistryWidgetLockstep ==
    /\ Len(playlist_widget.items) = Len(tracks)
    /\ \A i \in 1..Len(tracks) : playlist_widget.items[i] = tracks[i].title

\* a playlist of two different tracks has been loaded
WitnessLockstep ==
    /\ lastOp = "load_playlist"
    /\ status = <<"playlist loaded">>
    /\ Len(tracks) = 2
    /\ tracks[1] # tracks[2]

\* C3: next() changes nothing when current_index is absent; loads and plays
\* current_index + 1 when that is a valid index; otherwise stops the player and
\* makes current_index absent (so that a further next() is a no-op).
PlayNextContract ==
    [][lastOp' = "play_next" =>
        IF ~Present(current_index)
        THEN UNCHANGED <<tracks, playlist_widget, current_index, player, mini_label, status>>
        ELSE IF current_index[1] + 1 < Len(tracks)
             THEN /\ current_index' = Some(current_index[1] + 1)
                  /\ player'.source = Some(tracks[current_index[1] + 2].path)
                  /\ player'.playbackState = "PlayingState"
                  /\ tracks' = tracks
             ELSE /\ player'.playbackState = "StoppedState"
                  /\ current_index' = None
                  /\ tracks' = tracks]_vars

\* next() at the last of two tracks has stopped the player
WitnessPlayNextAtEnd ==
    /\ lastOp = "play_next"
    /\ Len(tracks) = 2
    /\ effects = <<"stop">>
    /\ current_index = None
    /\ player.playbackState = "StoppedState"

\* C4: every end-of-stream callback moves current_index strictly forward or halts
\* the player with current_index absent, and a player left to itself halts after
\* finitely many callbacks.
AutoAdvanceHalts ==
    /\ [][lastOp' = "on_media_status" =>
            IF Present(current_index')
            THEN Present(current_index) /\ current_index'[1] > current_index[1]
            ELSE player'.playbackState = "StoppedState"]_vars
    /\ (unattended ~> (player.playbackState = "StoppedState" /\ ~Present(current_index)))

\* the player left to itself has played to the end of the playlist and halted
WitnessAutoAdvanceHalted ==
    /\ unattended
    /\ lastOp = "on_media_status"
    /\ Len(tracks) = 2
    /\ effects = <<"stop">>
    /\ ~Present(current_index)
    /\ player.playbackState = "StoppedState"

\* the position of the first occurrence of what in the effects of the last handler (0: none)
RECURSIVE FirstAt(_, _, _)
FirstAt(seq, what, i) ==
    IF i > Len(seq) THEN 0 ELSE IF seq[i] = what THEN i ELSE FirstAt(seq, what, i + 1)

\* C5: the flag is set when the drag begins and stays set while the slider is
\* dragged; in the release handling the final seek is issued before the flag is
\* cleared.
SeekGuardOrdering ==
    /\ lastOp = "on_seek_pressed" => seeking
    /\ lastOp = "on_seek_moved" => seeking
    /\ lastOp = "on_seek_released" =>
          /\ ~seeking
          /\ FirstAt(effects, "setPosition", 1) # 0 =>
                FirstAt(effects, "setPosition", 1) < FirstAt(effects, "_seeking = False", 1)

\* C6: a position callback that arrives while the slider is dragged leaves the
\* slider value and the time label as they are; one that arrives while the
\* duration is not known leaves the slider value as it is.
SeekGuardSuppresses ==
    [][lastOp' = "on_position_changed" =>
        /\ seeking => seek_slider'.value = seek_slider.value /\ time_label' = time_label
        /\ (~seeking /\ player.duration <= 0) => seek_slider'.value = seek_slider.value]_vars

\* playback has advanced during a drag and the label still shows the old position
WitnessSuppressed ==
    /\ lastOp = "on_position_changed"
    /\ seeking
    /\ player.duration > 0
    /\ player.position > 0
    /\ time_label[1] # _format_time(player.position)

\* C7: closing the application and starting it again, with every file of the
\* playlist still there and a current track, gives the same tracks, the same
\* volume, the same current track bound to the player, paused, at the same position.
SessionRoundTrip ==
    [][(lastOp' = "__init__" /\ Present(current_index)
                             /\ \A i \in 1..Len(tracks) : tracks[i].path \in fs) =>
        /\ tracks' = tracks
        /\ volume' = volume
        /\ current_index' = current_index
        /\ Valid(tracks', current_index')
        /\ player'.source = Some(tracks'[current_index'[1] + 1].path)
        /\ player'.playbackState = "PausedState"
        /\ player'.position = player.position]_vars

\* C8: a load_playlist that cannot read the chosen file leaves the tracks, the
\* widget, current_index and the player as they were.
LoadFailureLeavesState ==
    [][(lastOp' = "load_playlist" /\ status' = <<"playlist load error">>) =>
        UNCHANGED <<tracks, playlist_widget, current_index, player>>]_vars

\* the load failed while a track of a non-empty playlist was playing
WitnessLoadFailure ==
    /\ lastOp = "load_playlist"
    /\ status = <<"playlist load error">>
    /\ Len(tracks) = 2
    /\ Present(current_index)
    /\ player.playbackState = "PlayingState"

\* the playback state before the last toggle_pause call, and before the first of
\* two consecutive calls
LastToggleFrom(st) == toggleRun # <<>> /\ toggleRun[Len(toggleRun)] = st
TwoTogglesFrom(st) == Len(toggleRun) = 2 /\ toggleRun[1] = st

\* C9 as stated: two consecutive toggle_pause calls give Playing then Paused from
\* Stopped, and Paused then Playing from Playing.
TogglePauseTwice ==
    /\ LastToggleFrom("StoppedState") => player.playbackState = "PlayingState"
    /\ TwoTogglesFrom("StoppedState") => player.playbackState = "PausedState"
    /\ LastToggleFrom("PlayingState") => player.playbackState = "PausedState"
    /\ TwoTogglesFrom("PlayingState") => player.playbackState = "PlayingState"

\* C9 as amended: the same, from Stopped only when the playlist is not empty.
TogglePauseTwiceNonEmpty ==
    /\ (LastToggleFrom("StoppedState") /\ tracks # <<>>) =>
            player.playbackState = "PlayingState"
    /\ (TwoTogglesFrom("StoppedState") /\ tracks # <<>>) =>
            player.playbackState = "PausedState"
    /\ LastToggleFrom("PlayingState") => player.playbackState = "PausedState"
    /\ TwoTogglesFrom("PlayingState") => player.playbackState = "PlayingState"

\* two consecutive calls from Stopped have paused a track
WitnessTogglePauseTwice ==
    /\ TwoTogglesFrom("StoppedState")
    /\ toggleRun[2] = "PlayingState"
    /\ tracks # <<>>
    /\ player.playbackState = "PausedState"

\* C10: previous() changes nothing when current_index is absent; otherwise it
\* loads and plays max(0, current_index - 1).
PlayPrevContract ==
    [][lastOp' = "play_prev" =>
        IF ~Present(current_index)
        THEN UNCHANGED <<tracks, playlist_widget, current_index, player, mini_label, status>>
        ELSE LET prev == Max(0, current_index[1] - 1)
             IN  /\ current_index' = Some(prev)
                 /\ current_index'[1] >= 0
                 /\ prev < Len(tracks)
                 /\ player'.source = Some(tracks[prev + 1].path)
                 /\ player'.playbackState = "PlayingState"]_vars

\* C11: _play_index(index) does nothing for an index that is no position of the
\* track list (index < 0 or index >= len(tracks)): the source, the playback state
\* and current_index stay as they were; for a position of the list it binds
\* tracks[index].path, plays and sets current_index to index.
LoadAndPlayContract ==
    [][lastOp' = "_play_index" =>
          LET index == lastIndex'[1]
          IN  IF 0 <= index /\ index < Len(tracks)
              THEN /\ player'.source = Some(tracks[index + 1].path)
                   /\ player'.playbackState = "PlayingState"
                   /\ current_index' = Some(index)
              ELSE /\ player'.source = player.source
                   /\ player'.playbackState = player.playbackState
                   /\ current_index' = current_index]_vars

\* C12: a seek request (the slider moved or released), whatever the slider value,
\* leaves the position alone while the duration is unknown or <= 0; with a
\* duration > 0 it sets the position to slider_value / maximum * duration,
\* truncated to an integer.
SeekRequestContract ==
    [][lastOp' \in {"on_seek_moved", "on_seek_released"} =>
          LET v == seek_slider'.value
              d == player.duration
              p == player'.position
          IN  IF d <= 0
              THEN p = player.position
              ELSE /\ p * SeekSliderMaximum <= v * d
                   /\ v * d < (p + 1) * SeekSliderMaximum]_vars

\* a drag to 333 of 1000 on the 2500 ms track has sought to 832 ms (of 832.5)
WitnessSeekTruncated ==
    /\ lastOp = "on_seek_moved"
    /\ player.duration = 2500
    /\ seek_slider.value = 333
    /\ player.position = 832

\* C13: Stop puts the media service in Stopped from any state and leaves
\* current_index and the track list as they were, so that a play_next or a
\* play_prev that follows navigates from the index that was current before the
\* stop: to the index after it (or, past the end, to no track) and to the index
\* before it (not below 0).
StopKeepsCurrentIndex ==
    /\ [][lastOp' = "stop" =>
             /\ player'.playbackState = "StoppedState"
             /\ current_index' = current_index
             /\ tracks' = tracks]_vars
    /\ [][lastOp = "stop" /\ Present(current_index) /\ lastOp' = "play_next" =>
             LET next == current_index[1] + 1
             IN  IF next < Len(tracks)
                 THEN /\ current_index' = Some(next)
                      /\ player'.source = Some(tracks[next + 1].path)
                      /\ player'.playbackState = "PlayingState"
                 ELSE ~Present(current_index')]_vars
    /\ [][lastOp = "stop" /\ Present(current_index) /\ lastOp' = "play_prev" =>
             LET prev == Max(0, current_index[1] - 1)
             IN  IF prev < Len(tracks)
                 THEN /\ current_index' = Some(prev)
                      /\ player'.source = Some(tracks[prev + 1].path)
                      /\ player'.playbackState = "PlayingState"
                 ELSE current_index' = current_index]_vars

\* the first of two tracks was playing and has been stopped
WitnessStopped ==
    /\ lastOp = "stop"
    /\ effects = <<"stop">>
    /\ Len(tracks) = 2
    /\ current_index = Some(0)
    /\ player.source = Some(tracks[1].path)
    /\ player.playbackState = "StoppedState"

\* C14: after any sequence of adds and removals the track list is the sequence
\* of the tracks that were added (the supported files of each pick, in the order
\* picked), less the entries at the rows that were removed: the survivors are
\* never reordered and a file added twice is there twice.
RegistryIsAddsLessRemovals == tracks = ledger

\* a full list has lost one entry and b.MP3 is its first track
WitnessRegistryExcised ==
    /\ lastOp = "remove_selected"
    /\ Len(tracks) = MaxTracks - 1
    /\ tracks[1].path = FileB

\* C15: a playlist that is saved and loaded again gives the same tracks in the
\* same order when every file still exists; a path that no longer exists is left
\* out, the entries before it keep their positions and the ones after it their
\* order.
Loaded == status = <<"playlist loaded">> /\ lastOp = "load_playlist"

PlaylistRoundTrip ==
    /\ [][lastOp' = "save_playlist" =>
             \/ playlist_file' = playlist_file
             \/ playlist_file' = Some([i \in 1..Len(tracks) |-> tracks[i].path])]_vars
    /\ [][Loaded' /\ <<tracks, playlist_widget>>' # <<tracks, playlist_widget>> =>
             LET lines == playlist_file[1]
                 there == {i \in 1..Len(lines) : lines[i] \in fs}
                 kept == SelectSeq(lines, LAMBDA p : p \in fs)
             IN  /\ Len(tracks') = Cardinality(there)
                 /\ \A i \in 1..Len(tracks') :
                        /\ tracks'[i].path = kept[i]
                        /\ tracks'[i].title = kept[i].stem
                 /\ \A i \in 1..Len(lines) :
                        (1..i) \subseteq there => tracks'[i].path = lines[i]
                 /\ there = 1..Len(lines) =>
                        [i \in 1..Len(tracks') |-> tracks'[i].path] = lines]_vars

\* b.MP3 and a.mp3 were saved, b.MP3 was deleted, and the load kept a.mp3 alone
\* (no row is current: the widget was cleared and filled again)
WitnessRoundTripDropsMissing ==
    /\ Loaded
    /\ playlist_widget.currentRow = -1
    /\ playlist_file = Some(<<FileB, FileA>>)
    /\ FileB \notin fs
    /\ Len(tracks) = 1
    /\ tracks[1].path = FileA

\* C16: at startup the three files are restored independently.  A file that is
\* missing, cannot be read or holds no valid text leaves its own field at its
\* default (no tracks; the built-in volume; no current_index and nothing bound),
\* a file that is good is restored whatever the state of the other two, and the
\* window always comes up.
SessionGood == last_session # None /\ "session" \notin raised'
VolumeGood == last_volume # None /\ "volume" \notin raised' /\ Len(last_volume[1]) = 2
StateGood == last_state # None /\ "state" \notin raised' /\ Len(last_state[1]) = 2

ArtifactsRestoredIndependently ==
    [][lastOp' = "__init__" =>
          /\ running'
          /\ IF SessionGood
             THEN [i \in 1..Len(tracks') |-> tracks'[i].path]
                      = SelectSeq(last_session[1], LAMBDA p : p \in fs)
             ELSE tracks' = <<>> /\ playlist_widget'.items = <<>>
          /\ IF VolumeGood
             THEN volume_slider' = IntTimes100(last_volume[1])
             ELSE /\ volume' = ToFloat32(DefaultVolumePercent, 100)
                  /\ volume_slider' = DefaultVolumePercent
          /\ IF StateGood /\ 0 <= last_state[1][1] /\ last_state[1][1] < Len(tracks')
             THEN /\ current_index' = Some(last_state[1][1])
                  /\ player'.source = Some(tracks'[last_state[1][1] + 1].path)
                  /\ player'.playbackState = "PausedState"
                  /\ player'.position = last_state[1][2]
             ELSE /\ current_index' = None
                  /\ player'.source = None
                  /\ player'.playbackState = "StoppedState"]_vars

\* C17: in every reachable state current_index is absent or a position of the
\* track list (0 <= current_index < len(tracks)), also after a track at another
\* row was removed and after a playlist was loaded while a track was current.
CurrentIndexInRange ==
    Present(current_index) => 0 <= current_index[1] /\ current_index[1] < Len(tracks)

\* C18: after the restore at startup, whatever the persisted list, the files of
\* it that are gone and the persisted marker, current_index is absent or a
\* position of the restored list; a persisted index that is -1, negative or
\* >= the length of the restored list leaves current_index absent and no track
\* bound.
RestoredIndexInRange ==
    [][lastOp' = "__init__" =>
          /\ Present(current_index') =>
                 0 <= current_index'[1] /\ current_index'[1] < Len(tracks')
          /\ (last_state # None /\ Len(last_state[1]) = 2
                 /\ (last_state[1][1] < 0 \/ last_state[1][1] >= Len(tracks'))) =>
                 /\ current_index' = None
                 /\ player'.source = None]_vars

\* the marker names the second of two tracks, one file is gone, and the
\* application has come up with the one track left and no current track
WitnessRestoredIndexDropped ==
    /\ lastOp = "__init__"
    /\ sessions > 1
    /\ last_state # None
    /\ Len(last_state[1]) = 2
    /\ last_state[1][1] = 1
    /\ last_session # None
    /\ Len(last_session[1]) = 2
    /\ Len(tracks) = 1
    /\ current_index = None
    /\ player.source = None

\* C19: the mini-player label agrees with current_index: it reads "No track"
\* exactly when current_index is absent and otherwise the title of
\* tracks[current_index], also after the current track was removed and after
\* play_next ran past the last track.
MiniLabelAgrees ==
    IF Present(current_index)
    THEN /\ 0 <= current_index[1]
         /\ current_index[1] < Len(tracks)
         /\ mini_label = tracks[current_index[1] + 1].title
         /\ mini_label # "No track"
    ELSE mini_label = "No track"

\* C20: the label of the pause button agrees with the playback state: it is
\* the resume label exactly when the player is Paused and "Pause" otherwise,
\* whatever the order of toggle, play, stop, next, previous, double click and
\* end of stream.
PauseLabelAgrees ==
    /\ btn_pause \in {ResumeLabel, "Pause"}
    /\ btn_pause = ResumeLabel <=> player.playbackState = "PausedState"

====
